---- MODULE Spec2Model ----
(***************************************************************************)
(* PaymentClient (src/lib/payment_client.py): a retrying payment client    *)
(* with a circuit breaker kept in three loose instance attributes          *)
(* (circuit_state, failure_count, last_failure_time).                      *)
(*                                                                         *)
(* Time.  The model's clock `now` is time.time() counted in milliseconds,  *)
(* so the code's  time.time() - last_failure_time > recovery_timeout_ms /  *)
(* 1000  is  now - last_failure_time > recovery_timeout_ms  here, and      *)
(* time.sleep(delay) with delay in seconds adds 1000 * delay to `now`.     *)
(* The epoch clock is positive, so `now` starts at 1 and never is 0.       *)
(*                                                                         *)
(* One caller runs charge() at a time: a call is the steps Charge (the     *)
(* permission check of lines 49-54), Attempt (one requests.post and the    *)
(* branch that handles its outcome, lines 118-177) and Sleep (the          *)
(* time.sleep between two attempts).  Tick lets time pass anywhere.        *)
(***************************************************************************)
EXTENDS Integers, Sequences, FiniteSets, TLC

VARIABLES
  \* ---- configuration, fixed by __init__ ----
  config_loaded,        \* TRUE: the try block of __init__ ran through
  max_retries,
  failure_threshold,    \* circuit_breaker_config['failure_threshold']
  recovery_timeout_ms,  \* circuit_breaker_config['recovery_timeout_ms']
  \* ---- breaker attributes ----
  circuit_state,
  failure_count,
  last_failure_time,
  \* ---- the clock ----
  now,
  \* ---- the charge() call in progress ----
  pc,                   \* "idle" | "attempt" | "sleep" | "done"
  attempt,              \* loop variable of _make_request
  result,               \* how the call ended (a returned dict or a raised exception)
  \* ---- observations of the run (history variables) ----
  outcomes,             \* outcomes of the remote attempts of the current call
  failures_recorded,    \* _record_failure calls made by the current call
  sleeps,               \* time.sleep calls made by the current call
  consec,               \* _record_failure calls since the last _record_success
  trip_time,            \* clock value at the last transition into OPEN
  admitted_in,          \* circuit_state in which the current call was checked
  cancelled,            \* the caller asked to cancel the call while it slept
  \* ---- PaymentHandler (src/payment_handler.py) ----
  circuit_breaker_threshold,
  circuit_breaker_reset_time,
  circuit_open,
  handler_failure_count,      \* PaymentHandler.failure_count
  handler_last_failure_time,  \* PaymentHandler.last_failure_time
  in_flight,            \* process_payment calls waiting in asyncio.wait_for
  last_op,              \* what the handler did last
  health_report,        \* the dict get_health_status returned last
  \* ---- threads sharing one PaymentClient ----
  t_pc,                 \* where each thread is in charge()
  t_attempt,            \* each thread's loop variable
  t_reg,                \* the failure_count a thread read for its `+= 1`
  t_clock,              \* what the thread's time.time() returned, until it is used
  t_after,              \* what follows the thread's _record_failure
  t_wake,               \* clock value at which the thread's time.sleep ends
  rf_calls,             \* _record_failure calls made before any _record_success call
  success_seen,         \* a _record_success call has been made
  trial_admits,         \* calls admitted since circuit_state last became HALF_OPEN
  \* ---- retry configuration, fixed by __init__ (milliseconds) ----
  timeout_ms,           \* self.timeout
  base_retry_delay_ms,  \* self.base_retry_delay
  backoff_multiplier,
  jitter_ms,
  \* ---- calls of _calculate_retry_delay made from outside charge() ----
  delay_last,           \* the last call: its attempt, jitter draw and result
  delay_prev            \* the call before it

retry_vars == << timeout_ms, base_retry_delay_ms, backoff_multiplier, jitter_ms,
                 delay_last, delay_prev >>

thread_vars == << t_pc, t_attempt, t_reg, t_clock, t_after, t_wake,
                  rf_calls, success_seen, trial_admits >>

handler_vars == << circuit_breaker_threshold, circuit_breaker_reset_time,
                   circuit_open, handler_failure_count, handler_last_failure_time,
                   in_flight, last_op, health_report >>

vars == << config_loaded, max_retries, failure_threshold, recovery_timeout_ms,
           circuit_state, failure_count, last_failure_time, now,
           pc, attempt, result, outcomes, failures_recorded, sleeps,
           consec, trip_time, admitted_in, cancelled, handler_vars, thread_vars,
           retry_vars >>

config_vars == << config_loaded, max_retries, failure_threshold, recovery_timeout_ms >>

(***************************************************************************)
(* Bounds of the model.                                                    *)
(***************************************************************************)
MaxAttempts == 3
MaxThreshold == 3
MaxRecovery == 2
MaxTime == 6
MaxFailures == 7
RetryDelayMs == 1
JitterMs == 1
MaxInFlight == 2
NumThreads == 2
ThreadMaxAttempts == 2
ThreadMaxThreshold == 2
ThreadMaxTime == 3
ThreadMaxFailures == 3
MaxTrialAdmits == 2
TimeoutMs == 1
MaxRetryDelay == 2
MaxMultiplier == 2
MaxJitter == 2
JitterStep == 100
FallbackMaxTime == 8000

(***************************************************************************)
(* Program values.                                                          *)
(***************************************************************************)
BackoffMultiplier == 2

\* The except branch of __init__, lines 36-40, in milliseconds.
FallbackTimeoutMs == 20000
FallbackMaxRetries == 3
FallbackRetryDelayMs == 2000
FallbackBackoffMultiplier == 2
FallbackJitterMs == 500

\* Python's None for last_failure_time (no clock value is negative).
None == 0 - 1

States == {"CLOSED", "OPEN", "HALF_OPEN"}

\* How the try body of one loop pass (lines 119-148) can go: requests.post
\* returns a response or raises.  "200" is status 200 with a JSON body and
\* "200_not_json" status 200 whose response.json() (line 131) raises;
\* "other_status" is a status that is none of 200, 429, 4xx, 5xx (201, 204,
\* 302, ...); "other_exception" is an exception that is neither
\* requests.exceptions.Timeout nor requests.exceptions.ConnectionError
\* (TooManyRedirects, another RequestException, ValueError, ...).
Outcomes == {"200", "200_not_json", "429", "4xx", "5xx", "other_status",
             "timeout", "connection_error", "other_exception"}

\* How a charge() call ends.
Returned == {"success", "circuit_open", "http_4xx", "http_5xx", "http_other",
             "max_retries_exceeded"}
Raised == {"raise_TimeoutError", "raise_Exception", "raise_AttributeError",
           "raise_ValueError", "raise_other_exception"}

\* Python truthiness of a number-or-None: None and 0 are false.
Truthy(x) == x # None /\ x # 0

\* The three breaker attributes as one value.
Breaker ==
  [circuit_state |-> circuit_state,
   failure_count |-> failure_count,
   last_failure_time |-> last_failure_time]

\* RecoveryElapsed with the comparison of line 75 turned round.
RecoveryElapsedFlipped(b, t) ==
  /\ Truthy(b.last_failure_time)
  /\ t - b.last_failure_time < recovery_timeout_ms

\* The condition of lines 74-75.
RecoveryElapsed(b, t) ==
  /\ Truthy(b.last_failure_time)
  /\ t - b.last_failure_time > recovery_timeout_ms

\* IsCircuitOpenRet without the `return True` of line 79.
IsCircuitOpenRetNoReject(b, t) == FALSE

\* _is_circuit_open: the value returned at clock value t.
IsCircuitOpenRet(b, t) ==
  IF b.circuit_state = "CLOSED" THEN FALSE
  ELSE IF b.circuit_state = "OPEN" THEN ~RecoveryElapsed(b, t)
  ELSE FALSE

\* IsCircuitOpenPost where a rejected check restarts the recovery window.
IsCircuitOpenPostRestartsWindow(b, t) ==
  IF b.circuit_state = "OPEN" /\ RecoveryElapsed(b, t)
  THEN [b EXCEPT !.circuit_state = "HALF_OPEN"]
  ELSE IF b.circuit_state = "OPEN" THEN [b EXCEPT !.last_failure_time = t]
  ELSE b

\* _is_circuit_open: the attributes after the call.
IsCircuitOpenPost(b, t) ==
  IF b.circuit_state = "OPEN" /\ RecoveryElapsed(b, t)
  THEN [b EXCEPT !.circuit_state = "HALF_OPEN"]
  ELSE b

\* RecordSuccess without the reset of line 90.
RecordSuccessNoReset(b) ==
  [circuit_state |-> "CLOSED",
   failure_count |-> b.failure_count,
   last_failure_time |-> None]

\* _record_success.
RecordSuccess(b) ==
  [circuit_state |-> "CLOSED", failure_count |-> 0, last_failure_time |-> None]

\* RecordFailure with > for the >= of line 100.
RecordFailureLateTrip(b, t) ==
  LET c == b.failure_count + 1 IN
  [circuit_state |->
     IF c > failure_threshold /\ b.circuit_state = "CLOSED" THEN "OPEN"
     ELSE IF b.circuit_state = "HALF_OPEN" THEN "OPEN"
     ELSE b.circuit_state,
   failure_count |-> c,
   last_failure_time |-> t]

\* RecordFailure comparing the count before the increment of line 97 is added.
RecordFailureEarlyTrip(b, t) ==
  LET c == b.failure_count + 1 IN
  [circuit_state |->
     IF c + 1 >= failure_threshold /\ b.circuit_state = "CLOSED" THEN "OPEN"
     ELSE IF b.circuit_state = "HALF_OPEN" THEN "OPEN"
     ELSE b.circuit_state,
   failure_count |-> c,
   last_failure_time |-> t]

\* RecordFailure without the elif branch of lines 104-106.
RecordFailureNoHalfOpen(b, t) ==
  LET c == b.failure_count + 1 IN
  [circuit_state |->
     IF c >= failure_threshold /\ b.circuit_state = "CLOSED" THEN "OPEN"
     ELSE b.circuit_state,
   failure_count |-> c,
   last_failure_time |-> t]

\* _record_failure at clock value t.  Without circuit_breaker_config (the
\* except branch of __init__ never sets it) line 100 raises AttributeError
\* after lines 97-98 have run.
RecordFailure(b, t) ==
  LET c == b.failure_count + 1 IN
  [circuit_state |->
     IF ~config_loaded THEN b.circuit_state
     ELSE IF c >= failure_threshold /\ b.circuit_state = "CLOSED" THEN "OPEN"
     ELSE IF b.circuit_state = "HALF_OPEN" THEN "OPEN"
     ELSE b.circuit_state,
   failure_count |-> c,
   last_failure_time |-> t]

\* _record_failure ends in AttributeError.
RecordFailureRaises == ~config_loaded

\* base ^ e for e >= 0.
RECURSIVE Pow(_, _)
Pow(base, e) == IF e = 0 THEN 1 ELSE base * Pow(base, e - 1)

\* CalculateRetryDelay growing by the base delay per attempt, not by the
\* multiplier.
CalculateRetryDelayLinear(a, j) == base_retry_delay_ms * (a + 1) + j

\* CalculateRetryDelay adding jitter_ms as seconds, without the / 1000 of
\* line 192.
CalculateRetryDelayJitterInSeconds(a, j) ==
  base_retry_delay_ms * Pow(backoff_multiplier, a) + 1000 * j

\* _calculate_retry_delay with the jitter draw j, in milliseconds.
CalculateRetryDelay(a, j) == base_retry_delay_ms * Pow(backoff_multiplier, a) + j

\* What random.uniform(0, self.jitter_ms / 1000) can yield, in milliseconds:
\* every JitterStep-th value from 0, and the upper end.
JitterDraws(jmax) == { j \in 0..jmax : j % JitterStep = 0 \/ j = jmax }

\* No call of _calculate_retry_delay was observed.
NoDelayCall == [attempt |-> None, jitter |-> None, delay |-> None]

\* __init__, lines 21-25: the retry settings read from the configuration file.
RetryConfigLoaded ==
  /\ timeout_ms = TimeoutMs
  /\ base_retry_delay_ms = RetryDelayMs
  /\ backoff_multiplier = BackoffMultiplier
  /\ jitter_ms = JitterMs
  /\ delay_last = NoDelayCall
  /\ delay_prev = NoDelayCall

\* The values of the client's attributes: after the try branch of __init__
\* (lines 15-31) the breaker settings are within the bounds, after its except
\* branch (lines 33-42) max_retries is 3 and there are no breaker settings.
TypeOK ==
  /\ config_loaded \in BOOLEAN
  /\ IF config_loaded
     THEN /\ max_retries \in 1..MaxAttempts
          /\ failure_threshold \in 1..MaxThreshold
          /\ recovery_timeout_ms \in 1..MaxRecovery
          /\ now \in 1..MaxTime
          /\ last_failure_time \in {None} \cup (1..MaxTime)
     ELSE /\ max_retries = FallbackMaxRetries
          /\ failure_threshold = None
          /\ recovery_timeout_ms = None
          /\ now \in 1..FallbackMaxTime
          /\ last_failure_time \in {None} \cup (1..FallbackMaxTime)
  /\ circuit_state \in States
  /\ failure_count \in 0..MaxFailures
  /\ pc \in {"idle", "attempt", "sleep", "done"}
  /\ attempt \in 0..(max_retries - 1)
  /\ result \in {"none"} \cup Returned \cup Raised

\* The three breaker attributes of the handler as one value.
HandlerBreaker ==
  [open |-> circuit_open,
   failure_count |-> handler_failure_count,
   last_failure_time |-> handler_last_failure_time]

\* PaymentHandler._is_circuit_open, lines 195-206: the value returned at clock
\* value t.
HandlerIsCircuitOpenRet(h, t) ==
  IF ~h.open THEN FALSE
  ELSE IF t - h.last_failure_time > circuit_breaker_reset_time THEN FALSE
  ELSE TRUE

\* PaymentHandler._is_circuit_open: the attributes after the call.
HandlerIsCircuitOpenPost(h, t) ==
  IF h.open /\ t - h.last_failure_time > circuit_breaker_reset_time
  THEN [h EXCEPT !.open = FALSE]
  ELSE h

\* PaymentHandler._record_failure, lines 208-215, at clock value t.
HandlerRecordFailure(h, t) ==
  LET c == h.failure_count + 1 IN
  [open |-> IF c >= circuit_breaker_threshold THEN TRUE ELSE h.open,
   failure_count |-> c,
   last_failure_time |-> t]

\* PaymentHandler._reset_circuit_breaker, lines 217-222.
ResetCircuitBreaker(h) ==
  IF h.failure_count > 0
  THEN [h EXCEPT !.failure_count = 0, !.open = FALSE]
  ELSE h

\* PaymentHandler.get_health_status, lines 265-279, for the attributes h (the
\* part of 'configuration' that belongs to the breaker is kept).
GetHealthStatus(h) ==
  [circuit_breaker |-> h,
   configuration |-> [circuit_breaker_threshold |-> circuit_breaker_threshold],
   status |-> IF ~h.open THEN "healthy" ELSE "degraded"]

\* No get_health_status call was made yet.
NoReport ==
  [circuit_breaker |-> [open |-> FALSE, failure_count |-> None,
                        last_failure_time |-> None],
   configuration |-> [circuit_breaker_threshold |-> None],
   status |-> "none"]

\* The threads that share the client.
Threads == 1..NumThreads

\* No thread has called charge().
ThreadsIdle ==
  /\ t_pc = [t \in Threads |-> "idle"]
  /\ t_attempt = [t \in Threads |-> 0]
  /\ t_reg = [t \in Threads |-> 0]
  /\ t_clock = [t \in Threads |-> 0]
  /\ t_after = [t \in Threads |-> "finish"]
  /\ t_wake = [t \in Threads |-> 0]
  /\ rf_calls = 0
  /\ success_seen = FALSE
  /\ trial_admits = 0

\* PaymentHandler.__init__, lines 68-78, with the two breaker settings given
\* (the constructor writes 5 and 60.0 into these attributes).
HandlerConstructed(threshold, reset_time) ==
  /\ circuit_breaker_threshold = threshold
  /\ circuit_breaker_reset_time = reset_time
  /\ circuit_open = FALSE
  /\ handler_failure_count = 0
  /\ handler_last_failure_time = 0
  /\ in_flight = 0
  /\ last_op = "none"
  /\ health_report = NoReport

\* __init__, lines 15-31: the configuration file was read.
Init ==
  /\ config_loaded = TRUE
  /\ max_retries \in 1..MaxAttempts
  /\ failure_threshold \in 1..MaxThreshold
  /\ recovery_timeout_ms \in 1..MaxRecovery
  /\ circuit_state = "CLOSED"
  /\ failure_count = 0
  /\ last_failure_time = None
  /\ now = 1
  /\ pc = "idle"
  /\ attempt = 0
  /\ result = "none"
  /\ outcomes = << >>
  /\ failures_recorded = 0
  /\ sleeps = 0
  /\ consec = 0
  /\ trip_time = None
  /\ admitted_in = "CLOSED"
  /\ cancelled = FALSE
  /\ HandlerConstructed(1, 1)
  /\ ThreadsIdle
  /\ RetryConfigLoaded

\* Assign the breaker attributes from b, and keep trip_time as the clock value of
\* the last step that moved circuit_state into OPEN.
SetBreaker(b) ==
  /\ circuit_state' = b.circuit_state
  /\ failure_count' = b.failure_count
  /\ last_failure_time' = b.last_failure_time
  /\ trip_time' = IF b.circuit_state = "OPEN" /\ circuit_state # "OPEN" THEN now ELSE trip_time

\* charge(), lines 49-64, up to the call of _make_request.
Charge ==
  /\ pc \in {"idle", "done"}
  /\ SetBreaker(IsCircuitOpenPost(Breaker, now))
  /\ admitted_in' = circuit_state
  /\ outcomes' = << >>
  /\ failures_recorded' = 0
  /\ sleeps' = 0
  /\ attempt' = 0
  /\ IF IsCircuitOpenRet(Breaker, now)
     THEN pc' = "done" /\ result' = "circuit_open"
     ELSE pc' = "attempt" /\ result' = "none"
  /\ UNCHANGED << config_vars, now, consec >>

\* The call ends with result r.
Finish(r) == pc' = "done" /\ result' = r /\ attempt' = attempt

\* The end of a failed retryable attempt: on the last one the call ends with
\* `last`, before another one the call sleeps (lines 137-141, 154-161, 167-172).
RetryOr(last) ==
  IF attempt = max_retries - 1 THEN Finish(last)
  ELSE pc' = "sleep" /\ result' = result /\ attempt' = attempt

\* One call of _record_failure by the running charge.
CallRecordFailure ==
  /\ SetBreaker(RecordFailure(Breaker, now))
  /\ consec' = consec + 1
  /\ failures_recorded' = failures_recorded + 1

\* Status 200 with a JSON body, lines 130-134: response.json() returns and
\* _record_success runs.
OnSuccess ==
  /\ SetBreaker(RecordSuccess(Breaker))
  /\ consec' = 0
  /\ failures_recorded' = failures_recorded
  /\ Finish("success")

\* OnRateLimited counting the 429 as a breaker failure.
OnRateLimitedCounts ==
  /\ CallRecordFailure
  /\ RetryOr("max_retries_exceeded")

\* Status 429, lines 135-141: no breaker call; `continue` on the last attempt
\* leaves the loop for the return of lines 179-182.
OnRateLimited ==
  /\ SetBreaker(Breaker)
  /\ UNCHANGED << consec, failures_recorded >>
  /\ RetryOr("max_retries_exceeded")

\* The error dict of lines 145-148 for a status that is neither 200 nor 429.
HttpErrorResult(o) ==
  IF o = "4xx" THEN "http_4xx"
  ELSE IF o = "5xx" THEN "http_5xx"
  ELSE "http_other"

\* OnHttpError treating the status as retryable, like the except branches.
OnHttpErrorRetry(o) ==
  /\ CallRecordFailure
  /\ RetryOr(HttpErrorResult(o))

\* Any other status, lines 142-148.  When _record_failure raises, the
\* AttributeError of line 144 is caught at line 174 and line 176 raises again.
OnHttpError(o) ==
  IF RecordFailureRaises
  THEN /\ SetBreaker(RecordFailure(RecordFailure(Breaker, now), now))
       /\ consec' = consec + 2
       /\ failures_recorded' = failures_recorded + 2
       /\ Finish("raise_AttributeError")
  ELSE /\ CallRecordFailure
       /\ Finish(HttpErrorResult(o))

\* OnTimeout where the failure of one attempt is recorded twice.
OnTimeoutRecordsTwice ==
  /\ SetBreaker(RecordFailure(RecordFailure(Breaker, now), now))
  /\ consec' = consec + 2
  /\ failures_recorded' = failures_recorded + 2
  /\ RetryOr("raise_TimeoutError")

\* requests.exceptions.Timeout, lines 150-161.
OnTimeout ==
  /\ CallRecordFailure
  /\ IF RecordFailureRaises THEN Finish("raise_AttributeError")
     ELSE RetryOr("raise_TimeoutError")

\* requests.exceptions.ConnectionError, lines 163-172.
OnConnectionError ==
  /\ CallRecordFailure
  /\ IF RecordFailureRaises THEN Finish("raise_AttributeError")
     ELSE RetryOr("raise_Exception")

\* An exception of the try body that is neither a requests Timeout nor a
\* requests ConnectionError, lines 174-177: the ValueError of response.json()
\* on a status 200 without a JSON body (line 131), or what requests.post
\* raised.  One _record_failure, then `raise` on any attempt: no retry.  When
\* _record_failure raises, its AttributeError leaves charge instead.
OnUnexpected(o) ==
  /\ CallRecordFailure
  /\ IF RecordFailureRaises THEN Finish("raise_AttributeError")
     ELSE Finish(IF o = "200_not_json" THEN "raise_ValueError"
                 ELSE "raise_other_exception")

\* One iteration of the loop of _make_request (lines 118-177) whose
\* requests.post ends as o.
Attempt(o) ==
  /\ pc = "attempt"
  /\ o \in {"200", "429"} \/ failure_count + 2 <= MaxFailures
  /\ outcomes' = Append(outcomes, o)
  /\ CASE o = "200" -> OnSuccess
       [] o = "429" -> OnRateLimited
       [] o \in {"4xx", "5xx", "other_status"} -> OnHttpError(o)
       [] o \in {"200_not_json", "other_exception"} -> OnUnexpected(o)
       [] o = "timeout" -> OnTimeout
       [] o = "connection_error" -> OnConnectionError
  /\ UNCHANGED << config_vars, now, sleeps, admitted_in >>

\* Where the clock stops: the fallback client's delays are the 2 s and more
\* of lines 38-40.
ClockCap == IF config_loaded THEN MaxTime ELSE FallbackMaxTime

\* Sleep with the delay computed for the attempt to come, as if attempts were
\* numbered from 1.
SleepDelayOfNextAttempt(j) ==
  /\ pc = "sleep"
  /\ now + CalculateRetryDelay(attempt + 1, j) <= ClockCap
  /\ now' = now + CalculateRetryDelay(attempt + 1, j)
  /\ sleeps' = sleeps + 1
  /\ attempt' = attempt + 1
  /\ pc' = "attempt"
  /\ UNCHANGED << config_vars, circuit_state, failure_count, last_failure_time,
                  result, outcomes, failures_recorded, consec, trip_time, admitted_in >>

\* time.sleep(self._calculate_retry_delay(attempt)) with the jitter draw j, and
\* the loop's step to the next attempt.
Sleep(j) ==
  /\ pc = "sleep"
  /\ now + CalculateRetryDelay(attempt, j) <= ClockCap
  /\ now' = now + CalculateRetryDelay(attempt, j)
  /\ sleeps' = sleeps + 1
  /\ attempt' = attempt + 1
  /\ pc' = "attempt"
  /\ UNCHANGED << config_vars, circuit_state, failure_count, last_failure_time,
                  result, outcomes, failures_recorded, consec, trip_time, admitted_in >>

\* Time passes.
Tick ==
  /\ now < MaxTime
  /\ now' = now + 1
  /\ UNCHANGED << config_vars, circuit_state, failure_count, last_failure_time,
                  pc, attempt, result, outcomes, failures_recorded, sleeps,
                  consec, trip_time, admitted_in >>

AttemptAny == \E o \in Outcomes : Attempt(o)

SleepAny == \E j \in JitterDraws(jitter_ms) : Sleep(j)

\* The caller asks to cancel the call while it sleeps between two attempts.
\* The code has no input for this: nothing in PaymentClient reads the request.
Cancel ==
  /\ pc = "sleep"
  /\ ~cancelled
  /\ cancelled' = TRUE
  /\ UNCHANGED << config_vars, circuit_state, failure_count, last_failure_time, now,
                  pc, attempt, result, outcomes, failures_recorded, sleeps,
                  consec, trip_time, admitted_in >>

\* The client alone: the handler object is not touched.
Next ==
  \/ Charge /\ cancelled' = FALSE /\ UNCHANGED << handler_vars, thread_vars, retry_vars >>
  \/ AttemptAny /\ UNCHANGED << cancelled, handler_vars, thread_vars, retry_vars >>
  \/ SleepAny /\ UNCHANGED << cancelled, handler_vars, thread_vars, retry_vars >>
  \/ Tick /\ UNCHANGED << cancelled, handler_vars, thread_vars, retry_vars >>
  \/ Cancel /\ UNCHANGED << handler_vars, thread_vars, retry_vars >>

Spec == Init /\ [][Next]_vars

(***************************************************************************)
(* PaymentHandler (src/payment_handler.py): asyncio coroutines on one      *)
(* event loop.  A process_payment call runs without interruption up to its *)
(* await (lines 94-105) and from the end of the await to its return, so it *)
(* is the two steps ProcessPaymentBegin and ProcessPaymentEnd; several     *)
(* calls can be waiting at once.  The handler's clock is `now` too, with   *)
(* circuit_breaker_reset_time in the same unit.                            *)
(***************************************************************************)

\* Assign the handler's breaker attributes from h.
SetHandler(h) ==
  /\ circuit_open' = h.open
  /\ handler_failure_count' = h.failure_count
  /\ handler_last_failure_time' = h.last_failure_time

\* How the await of line 105 can end: _execute_payment returned, wait_for
\* raised asyncio.TimeoutError, _execute_payment raised an Exception, or the
\* task running process_payment was cancelled (asyncio.CancelledError, a
\* BaseException that neither line 124 nor line 142 catches).
PaymentOutcomes == {"completed", "timeout", "failed", "cancelled"}

\* process_payment, lines 94-105: the breaker check.  An open breaker raises
\* the Exception of line 102, which the handler of lines 142-156 catches: it
\* calls _record_failure and returns a FAILED result.
ProcessPaymentBegin ==
  /\ in_flight < MaxInFlight
  /\ IF HandlerIsCircuitOpenRet(HandlerBreaker, now)
     THEN /\ handler_failure_count + 1 <= MaxFailures
          /\ SetHandler(HandlerRecordFailure(HandlerIsCircuitOpenPost(HandlerBreaker, now), now))
          /\ last_op' = "rejected"
          /\ in_flight' = in_flight
     ELSE /\ SetHandler(HandlerIsCircuitOpenPost(HandlerBreaker, now))
          /\ last_op' = "admitted"
          /\ in_flight' = in_flight + 1
  /\ UNCHANGED << circuit_breaker_threshold, circuit_breaker_reset_time, health_report >>

\* process_payment, lines 105-156, from the end of the await: the payment
\* completed (lines 110-122), timed out (124-140) or raised (142-156); a
\* CancelledError leaves process_payment with no breaker call.
ProcessPaymentEnd(o) ==
  /\ in_flight > 0
  /\ o \in {"completed", "cancelled"} \/ handler_failure_count + 1 <= MaxFailures
  /\ in_flight' = in_flight - 1
  /\ IF o = "completed"
     THEN SetHandler(ResetCircuitBreaker(HandlerBreaker))
     ELSE IF o = "cancelled"
     THEN SetHandler(HandlerBreaker)
     ELSE SetHandler(HandlerRecordFailure(HandlerBreaker, now))
  /\ last_op' = o
  /\ UNCHANGED << circuit_breaker_threshold, circuit_breaker_reset_time, health_report >>

\* A get_health_status that asks _is_circuit_open for the status.
HealthCheckViaIsCircuitOpen ==
  /\ SetHandler(HandlerIsCircuitOpenPost(HandlerBreaker, now))
  /\ health_report' = GetHealthStatus(HandlerIsCircuitOpenPost(HandlerBreaker, now))
  /\ last_op' = "health"
  /\ UNCHANGED << circuit_breaker_threshold, circuit_breaker_reset_time, in_flight >>

\* A call of get_health_status, lines 265-279.
HealthCheck ==
  /\ health_report' = GetHealthStatus(HandlerBreaker)
  /\ last_op' = "health"
  /\ UNCHANGED << circuit_breaker_threshold, circuit_breaker_reset_time,
                  circuit_open, handler_failure_count, handler_last_failure_time,
                  in_flight >>

ProcessPaymentEndAny == \E o \in PaymentOutcomes : ProcessPaymentEnd(o)

client_vars == << config_vars, circuit_state, failure_count, last_failure_time,
                  pc, attempt, result, outcomes, failures_recorded, sleeps,
                  consec, trip_time, admitted_in, cancelled >>

\* PaymentHandler.__init__ with breaker settings within the bounds; the
\* client object is constructed and stays unused.
InitHandler ==
  /\ config_loaded = TRUE
  /\ max_retries = 1
  /\ failure_threshold = 1
  /\ recovery_timeout_ms = 1
  /\ circuit_state = "CLOSED"
  /\ failure_count = 0
  /\ last_failure_time = None
  /\ now = 1
  /\ pc = "idle"
  /\ attempt = 0
  /\ result = "none"
  /\ outcomes = << >>
  /\ failures_recorded = 0
  /\ sleeps = 0
  /\ consec = 0
  /\ trip_time = None
  /\ admitted_in = "CLOSED"
  /\ cancelled = FALSE
  /\ \E th \in 1..MaxThreshold, rt \in 1..MaxRecovery : HandlerConstructed(th, rt)
  /\ ThreadsIdle
  /\ RetryConfigLoaded

\* The handler alone.
NextHandler ==
  \/ ProcessPaymentBegin /\ UNCHANGED << client_vars, now, thread_vars, retry_vars >>
  \/ ProcessPaymentEndAny /\ UNCHANGED << client_vars, now, thread_vars, retry_vars >>
  \/ HealthCheck /\ UNCHANGED << client_vars, now, thread_vars, retry_vars >>
  \/ Tick /\ UNCHANGED << cancelled, handler_vars, thread_vars, retry_vars >>

SpecHandler == InitHandler /\ [][NextHandler]_vars

(***************************************************************************)
(* Steps of a run, told by what they change.                               *)
(***************************************************************************)

\* charge() is called: the permission check of line 49 runs in this step.
CallStep == pc \in {"idle", "done"} /\ now' = now

\* _record_failure runs once in this step.
FailureStep == consec' = consec + 1

\* An attempt gets status 200 in this step, and _record_success runs.
SuccessStep == pc = "attempt" /\ result' = "success"

\* _is_circuit_open returns True at every clock value from `from` on that is
\* less than recovery_timeout_ms later, for the breaker attributes b.
RejectsWithin(b, from) ==
  \A t \in from..MaxTime : t - from < recovery_timeout_ms => IsCircuitOpenRet(b, t)

(***************************************************************************)
(* The claims.                                                             *)
(***************************************************************************)

\* The per-attempt outcomes the specification calls ordinary remote failures,
\* and success.
OrdinaryOutcomes == {"200", "429", "4xx", "5xx", "timeout", "connection_error"}

\* C1 (as stated): charge never ends by raising: whatever the outcomes of its
\* attempts, drawn from 200, 429, other 4xx, 5xx, timeout and connection
\* error, a finished call has returned a result value.
C1_ChargeNeverRaises ==
  (pc = "done" /\ \A i \in 1..Len(outcomes) : outcomes[i] \in OrdinaryOutcomes)
  => result \in Returned

\* C2: counted from the last success (or from construction), a recorded
\* failure that is not yet the failure_threshold-th leaves the breaker CLOSED,
\* and the failure_threshold-th opens it, after which the permission check
\* rejects at every time before recovery_timeout_ms has passed.
C2_ThresholdOpensBreaker ==
  [][ FailureStep =>
        /\ (consec' < failure_threshold => circuit_state' = "CLOSED")
        /\ (consec' = failure_threshold =>
              /\ circuit_state' = "OPEN"
              /\ RejectsWithin(Breaker', now')) ]_vars

\* C2 happens: with a threshold above 1, the breaker opened at the
\* threshold-th failure and the next charge was rejected.
C2_Witness ==
  /\ failure_threshold > 1
  /\ consec = failure_threshold
  /\ circuit_state = "OPEN"
  /\ result = "circuit_open"

\* C3: while the breaker is OPEN, a charge called less than
\* recovery_timeout_ms after the trip is rejected and leaves the breaker OPEN.
C3_OpenRejectsBeforeTimeout ==
  [][ (CallStep /\ circuit_state = "OPEN" /\ now - trip_time < recovery_timeout_ms)
        => (pc' = "done" /\ result' = "circuit_open" /\ circuit_state' = "OPEN") ]_vars

\* C3 happens: a call made after the trip, inside the window, was rejected.
C3_Witness ==
  /\ pc = "done"
  /\ result = "circuit_open"
  /\ circuit_state = "OPEN"
  /\ now > trip_time
  /\ now - trip_time < recovery_timeout_ms

\* C4 (as stated): while the breaker is OPEN, a charge called at or after
\* trip time + recovery_timeout_ms is admitted and moves the breaker to
\* HALF_OPEN.
C4_AdmitsAtOrAfterTimeout ==
  [][ (CallStep /\ circuit_state = "OPEN" /\ now - trip_time >= recovery_timeout_ms)
        => (pc' = "attempt" /\ circuit_state' = "HALF_OPEN") ]_vars

\* C5: a failure recorded in HALF_OPEN opens the breaker and makes the time
\* of that failure the start of the recovery window.
C5_HalfOpenFailureReopens ==
  [][ (circuit_state = "HALF_OPEN" /\ FailureStep)
        => /\ circuit_state' = "OPEN"
           /\ last_failure_time' = now
           /\ RejectsWithin(Breaker', now) ]_vars

\* C5 happens: the trial call admitted from OPEN timed out, and the breaker is
\* OPEN with the window measured from that failure.
C5_Witness ==
  /\ admitted_in = "OPEN"
  /\ outcomes = << "timeout" >>
  /\ circuit_state = "OPEN"
  /\ last_failure_time = now
  /\ trip_time = now

\* C6: a success recorded in HALF_OPEN closes the breaker with a failure
\* counter of 0.
C6_HalfOpenSuccessCloses ==
  [][ (circuit_state = "HALF_OPEN" /\ SuccessStep)
        => (circuit_state' = "CLOSED" /\ failure_count' = 0) ]_vars

\* C6 happens: the trial call admitted from OPEN succeeded.
C6_Witness ==
  /\ admitted_in = "OPEN"
  /\ result = "success"
  /\ circuit_state = "CLOSED"
  /\ failure_count = 0

\* C7 (as stated): a finished charge all of whose attempts timed out made
\* max_retries attempts, recorded max_retries failures and returned a result.
C7_AllTimeoutsReturnTimeout ==
  (/\ pc = "done"
   /\ outcomes # << >>
   /\ \A i \in 1..Len(outcomes) : outcomes[i] = "timeout")
  => (/\ Len(outcomes) = max_retries
      /\ failures_recorded = max_retries
      /\ result \in Returned)

\* C8: as long as fewer than failure_threshold failures were recorded since
\* the last success, the breaker is CLOSED and its counter is that number of
\* failures: 0 right after a success.
C8_ClosedBelowThreshold ==
  consec < failure_threshold => (circuit_state = "CLOSED" /\ failure_count = consec)

\* C8 happens: two timeouts below the threshold, then a success, in a call
\* admitted by the CLOSED breaker.
C8_Witness ==
  /\ admitted_in = "CLOSED"
  /\ Len(outcomes) = 3
  /\ outcomes[1] = "timeout" /\ outcomes[2] = "timeout" /\ outcomes[3] = "200"
  /\ failure_threshold > 2
  /\ circuit_state = "CLOSED"
  /\ failure_count = 0

\* C9: a charge called while the breaker is OPEN and less than
\* recovery_timeout_ms after the trip ends at once as circuit_open: no remote
\* attempt, no sleep, no time spent; and a circuit_open result always comes
\* with no attempt and no sleep.
C9_OpenChargeMakesNoAttempt ==
  /\ [](result = "circuit_open" =>
          (pc = "done" /\ outcomes = << >> /\ sleeps = 0 /\ failures_recorded = 0))
  /\ [][ (CallStep /\ circuit_state = "OPEN" /\ now - trip_time < recovery_timeout_ms)
           => (/\ result' = "circuit_open"
               /\ pc' = "done"
               /\ outcomes' = << >>
               /\ sleeps' = 0
               /\ failure_count' = failure_count) ]_vars

\* C9 happens: a client with several attempts configured rejected a charge at
\* the very time of the trip.
C9_Witness ==
  /\ max_retries > 1
  /\ result = "circuit_open"
  /\ outcomes = << >>
  /\ circuit_state = "OPEN"
  /\ now = trip_time

\* C10: if the first attempt gets a 4xx status other than 429, the call is
\* over: one attempt, one recorded failure, no sleep, an HTTP error returned.
C10_ClientErrorEndsCall ==
  (Len(outcomes) >= 1 /\ outcomes[1] = "4xx")
  => (/\ pc = "done"
      /\ result = "http_4xx"
      /\ Len(outcomes) = 1
      /\ failures_recorded = 1
      /\ sleeps = 0)

\* C10 happens: a client with several attempts configured got a 4xx first.
C10_Witness ==
  /\ max_retries > 1
  /\ outcomes = << "4xx" >>
  /\ result = "http_4xx"

(***************************************************************************)
(* More steps of a run.                                                    *)
(***************************************************************************)

\* A remote attempt is made in this step.
AttemptStep == Len(outcomes') = Len(outcomes) + 1

\* The attempt of this step gets status 429.
RateLimitedStep == outcomes' = Append(outcomes, "429")

\* The attempt of this step times out.
TimeoutStep == outcomes' = Append(outcomes, "timeout")

\* The outcomes that make the code call _record_failure.
FailureOutcomes == {"200_not_json", "4xx", "5xx", "other_status", "timeout",
                    "connection_error", "other_exception"}

\* The transitions of the spec's state machine (section 4.2).
SpecTransitions ==
  { << "CLOSED", "OPEN" >>, << "OPEN", "HALF_OPEN" >>,
    << "HALF_OPEN", "CLOSED" >>, << "HALF_OPEN", "OPEN" >> }

\* C11 (as stated): a call whose last attempt got a 5xx status has used all
\* max_retries attempts: a 5xx with attempts left is retried.
C11_ServerErrorRetried ==
  (pc = "done" /\ outcomes # << >> /\ outcomes[Len(outcomes)] = "5xx")
  => (Len(outcomes) = max_retries /\ result = "http_5xx")

\* C12: an attempt that gets 429 leaves the breaker attributes and the
\* failure counts as they were, is followed by a sleep of
\* _calculate_retry_delay(attempt) while attempts remain, and ends the call
\* as max_retries_exceeded when it was the last; a call whose attempts all
\* got 429 made max_retries attempts and recorded no failure.
C12_RateLimitedNotCounted ==
  /\ [][ RateLimitedStep =>
           /\ Breaker' = Breaker
           /\ consec' = consec
           /\ failures_recorded' = failures_recorded
           /\ IF attempt < max_retries - 1
              THEN pc' = "sleep"
              ELSE pc' = "done" /\ result' = "max_retries_exceeded" ]_vars
  /\ [][ (pc = "sleep" /\ outcomes[Len(outcomes)] = "429" /\ pc' # "sleep")
           => /\ pc' = "attempt"
              /\ attempt' = attempt + 1
              /\ \E j \in 0..JitterMs : now' = now + CalculateRetryDelay(attempt, j) ]_vars
  /\ []( (pc = "done" /\ outcomes # << >>
            /\ \A i \in 1..Len(outcomes) : outcomes[i] = "429")
         => (/\ result = "max_retries_exceeded"
             /\ Len(outcomes) = max_retries
             /\ failures_recorded = 0
             /\ sleeps = max_retries - 1) )

\* C12 happens: every attempt of a call with several attempts got 429.
C12_Witness ==
  /\ pc = "done"
  /\ max_retries > 1
  /\ Len(outcomes) = max_retries
  /\ \A i \in 1..Len(outcomes) : outcomes[i] = "429"
  /\ result = "max_retries_exceeded"

\* C13: a charge called while the breaker is OPEN and less than
\* recovery_timeout_ms after the trip changes none of circuit_state,
\* failure_count and last_failure_time (nor the start of the window).
C13_RejectedCheckChangesNothing ==
  [][ (CallStep /\ circuit_state = "OPEN" /\ now - trip_time < recovery_timeout_ms)
        => (Breaker' = Breaker /\ trip_time' = trip_time /\ consec' = consec) ]_vars

\* C13 happens: a call made later than the last failure, inside the window,
\* was rejected and the last failure time is still that of the failure.
C13_Witness ==
  /\ result = "circuit_open"
  /\ circuit_state = "OPEN"
  /\ last_failure_time < now
  /\ now - trip_time < recovery_timeout_ms
  /\ failure_count = failure_threshold

\* C16 (as stated): circuit_state changes only along the transitions of the
\* spec's state machine; in particular never from OPEN to CLOSED.
C16_OnlySpecTransitions ==
  [][ circuit_state' # circuit_state
        => << circuit_state, circuit_state' >> \in SpecTransitions ]_vars

\* C17 (as stated): no remote attempt is made while the breaker is OPEN and
\* less than recovery_timeout_ms have passed since the trip.
C17_NoAttemptWhileOpen ==
  [][ AttemptStep =>
        ~(circuit_state = "OPEN" /\ now - trip_time < recovery_timeout_ms) ]_vars

\* C18: an attempt that times out records exactly one failure, every attempt
\* makes at most one breaker call, and no step other than an attempt or a
\* permission check changes the breaker: nothing that arrives after the
\* timeout branch has run is recorded.
C18_OneRecordPerAttempt ==
  /\ [][ TimeoutStep =>
           (consec' = consec + 1 /\ failures_recorded' = failures_recorded + 1) ]_vars
  /\ [][ (~AttemptStep /\ ~CallStep) => (Breaker' = Breaker /\ consec' = consec) ]_vars
  /\ [](failures_recorded =
          Cardinality({i \in 1..Len(outcomes) : outcomes[i] \in FailureOutcomes}))

\* C18 happens: a call slept after a timed-out attempt and made its next
\* attempt, with one failure recorded for the timeout.
C18_Witness ==
  /\ Len(outcomes) = 2
  /\ outcomes[1] = "timeout"
  /\ outcomes[2] = "200"
  /\ sleeps = 1
  /\ failures_recorded = 1

\* C19 (as stated): once the caller has asked to cancel a sleeping call, the
\* call makes no further attempt: it is still asleep, or it has ended as
\* cancelled.
C19_CancelledCallStops ==
  cancelled => (pc = "sleep" \/ (pc = "done" /\ result = "cancelled"))

\* get_health_status is called in this step.
HealthStep == last_op' = "health" /\ now' = now

\* C20: a get_health_status call changes none of the handler's breaker
\* attributes, returns their current values, and so returns what the call
\* before it returned whenever the attributes are still those it reported.
C20_HealthReportIsPureRead ==
  [][ HealthStep =>
        /\ HandlerBreaker' = HandlerBreaker
        /\ in_flight' = in_flight
        /\ health_report' = GetHealthStatus(HandlerBreaker)
        /\ (health_report.circuit_breaker = HandlerBreaker
              => health_report'.circuit_breaker = health_report.circuit_breaker
                 /\ health_report'.status = health_report.status) ]_vars

\* C20 happens: a report was taken of an open breaker after its reset time had
\* passed, and the breaker is still open with the values reported.
C20_Witness ==
  /\ last_op = "health"
  /\ circuit_open
  /\ now - handler_last_failure_time > circuit_breaker_reset_time
  /\ health_report.circuit_breaker = HandlerBreaker
  /\ health_report.status = "degraded"


\* ---------------------------------------------------------------------
\* Several threads calling charge() on one PaymentClient.  The client has
\* no lock, so every read and every write of a breaker field is a step of
\* its own and the threads' steps interleave freely.
\* ---------------------------------------------------------------------

\* The positions of a thread inside charge().
ThreadPcs == { "idle", "check_truthy", "check_clock", "check_elapsed",
               "set_half_open", "attempt", "sleep", "rf_read", "rf_write",
               "rf_clock", "rf_time", "rf_test", "rf_open", "rs_test",
               "rs_close", "rs_count", "rs_time" }

\* A thread that passed the permission check and has not left charge().
InFlight(t) == t_pc[t] \notin { "idle", "check_truthy", "check_clock",
                                "check_elapsed", "set_half_open" }

\* A thread between the first and the last statement of _record_failure.
InRecordFailure(t) == t_pc[t] \in { "rf_read", "rf_write", "rf_clock",
                                    "rf_time", "rf_test", "rf_open" }

breaker_vars == << circuit_state, failure_count, last_failure_time >>

seq_vars == << config_vars, pc, attempt, result, outcomes, failures_recorded,
               sleeps, consec, trip_time, admitted_in, cancelled >>

Goto(t, where) == t_pc' = [t_pc EXCEPT ![t] = where]

\* charge, line 49, and _is_circuit_open, lines 70-72 and 80-81: the read of
\* circuit_state.  CLOSED and HALF_OPEN let the call through.
T_Check(t) ==
  /\ t_pc[t] = "idle"
  /\ IF circuit_state = "OPEN"
     THEN /\ Goto(t, "check_truthy")
          /\ UNCHANGED << t_attempt, trial_admits >>
     ELSE /\ circuit_state = "HALF_OPEN" => trial_admits < MaxTrialAdmits
          /\ Goto(t, "attempt")
          /\ t_attempt' = [t_attempt EXCEPT ![t] = 0]
          /\ trial_admits' = IF circuit_state = "HALF_OPEN"
                             THEN trial_admits + 1 ELSE trial_admits
  /\ UNCHANGED << breaker_vars, now, t_reg, t_clock, t_after, t_wake, rf_calls,
                  success_seen >>

\* _is_circuit_open, line 74: the first read of last_failure_time, for its
\* truth value; a falsy value ends the call with the open-breaker error.
T_CheckTruthy(t) ==
  /\ t_pc[t] = "check_truthy"
  /\ Goto(t, IF Truthy(last_failure_time) THEN "check_clock" ELSE "idle")
  /\ UNCHANGED << breaker_vars, now, t_attempt, t_reg, t_clock, t_after, t_wake,
                  rf_calls, success_seen, trial_admits >>

\* _is_circuit_open, line 75: the call of time.time(), the left operand of
\* the subtraction.  The thread keeps what it returned.
T_CheckClock(t) ==
  /\ t_pc[t] = "check_clock"
  /\ t_clock' = [t_clock EXCEPT ![t] = now]
  /\ Goto(t, "check_elapsed")
  /\ UNCHANGED << breaker_vars, now, t_attempt, t_reg, t_after, t_wake,
                  rf_calls, success_seen, trial_admits >>

\* _is_circuit_open, line 75: the second read of last_failure_time, for the
\* subtraction from the clock value the thread holds (None here is a
\* TypeError that leaves charge), and the comparison with the recovery
\* timeout.
T_CheckElapsed(t) ==
  /\ t_pc[t] = "check_elapsed"
  /\ Goto(t, IF last_failure_time # None
                /\ t_clock[t] - last_failure_time > recovery_timeout_ms
             THEN "set_half_open" ELSE "idle")
  /\ t_clock' = [t_clock EXCEPT ![t] = 0]
  /\ UNCHANGED << breaker_vars, now, t_attempt, t_reg, t_after, t_wake,
                  rf_calls, success_seen, trial_admits >>

\* _is_circuit_open, lines 76-78: the write of HALF_OPEN; the call goes on
\* to its first attempt.
T_SetHalfOpen(t) ==
  /\ t_pc[t] = "set_half_open"
  /\ circuit_state = "HALF_OPEN" => trial_admits < MaxTrialAdmits
  /\ circuit_state' = "HALF_OPEN"
  /\ trial_admits' = IF circuit_state = "HALF_OPEN" THEN trial_admits + 1 ELSE 1
  /\ Goto(t, "attempt")
  /\ t_attempt' = [t_attempt EXCEPT ![t] = 0]
  /\ UNCHANGED << failure_count, last_failure_time, now, t_reg, t_clock, t_after,
                  t_wake, rf_calls, success_seen >>

\* time.sleep(delay) begins, lines 138-140, 159-161, 170-172.
T_BeginSleep(t, j) ==
  /\ Goto(t, "sleep")
  /\ t_wake' = [t_wake EXCEPT ![t] = now + CalculateRetryDelay(t_attempt[t], j)]

\* _make_request, lines 118-177: one pass of the loop body up to the call
\* of _record_success or _record_failure.
T_Attempt(t, o) ==
  /\ t_pc[t] = "attempt"
  /\ CASE o = "200" ->
            /\ Goto(t, "rs_test")
            /\ success_seen' = TRUE
            /\ rf_calls' = 0
            /\ UNCHANGED << t_after, t_wake >>
       [] o = "429" ->
            /\ IF t_attempt[t] < max_retries - 1
               THEN \E j \in JitterDraws(jitter_ms) : T_BeginSleep(t, j)
               ELSE Goto(t, "idle") /\ UNCHANGED t_wake
            /\ UNCHANGED << t_after, rf_calls, success_seen >>
       [] o \in { "200_not_json", "4xx", "5xx", "other_status",
                  "other_exception" } ->
            /\ Goto(t, "rf_read")
            /\ t_after' = [t_after EXCEPT ![t] = "finish"]
            /\ UNCHANGED << t_wake, rf_calls, success_seen >>
       [] OTHER ->
            /\ Goto(t, "rf_read")
            /\ t_after' = [t_after EXCEPT ![t] =
                 IF t_attempt[t] < max_retries - 1 THEN "retry" ELSE "finish"]
            /\ UNCHANGED << t_wake, rf_calls, success_seen >>
  /\ UNCHANGED << breaker_vars, now, t_attempt, t_reg, t_clock, trial_admits >>

\* _record_failure, line 97: the read half of `self.failure_count += 1`.
T_RfRead(t) ==
  /\ t_pc[t] = "rf_read"
  /\ failure_count < ThreadMaxFailures
  /\ success_seen \/ rf_calls < ThreadMaxFailures
  /\ t_reg' = [t_reg EXCEPT ![t] = failure_count]
  /\ rf_calls' = IF success_seen THEN rf_calls ELSE rf_calls + 1
  /\ Goto(t, "rf_write")
  /\ UNCHANGED << breaker_vars, now, t_attempt, t_clock, t_after, t_wake,
                  success_seen, trial_admits >>

\* _record_failure, line 97: the write half of `self.failure_count += 1`.
T_RfWrite(t) ==
  /\ t_pc[t] = "rf_write"
  /\ failure_count' = t_reg[t] + 1
  /\ Goto(t, "rf_clock")
  /\ UNCHANGED << circuit_state, last_failure_time, now, t_attempt, t_reg, t_clock,
                  t_after, t_wake, rf_calls, success_seen, trial_admits >>

\* _record_failure, line 98: the call of time.time().  The thread keeps what
\* it returned.
T_RfClock(t) ==
  /\ t_pc[t] = "rf_clock"
  /\ t_clock' = [t_clock EXCEPT ![t] = now]
  /\ Goto(t, "rf_time")
  /\ UNCHANGED << breaker_vars, now, t_attempt, t_reg, t_after, t_wake,
                  rf_calls, success_seen, trial_admits >>

\* _record_failure, line 98: the store of that clock value into
\* last_failure_time.
T_RfTime(t) ==
  /\ t_pc[t] = "rf_time"
  /\ last_failure_time' = t_clock[t]
  /\ t_clock' = [t_clock EXCEPT ![t] = 0]
  /\ Goto(t, "rf_test")
  /\ UNCHANGED << circuit_state, failure_count, now, t_attempt, t_reg,
                  t_after, t_wake, rf_calls, success_seen, trial_admits >>

\* What follows a _record_failure that has returned: the error result or
\* the raise, or the sleep before the next attempt.
T_AfterRecordFailure(t) ==
  IF t_after[t] = "retry"
  THEN \E j \in JitterDraws(jitter_ms) : T_BeginSleep(t, j)
  ELSE Goto(t, "idle") /\ UNCHANGED t_wake

\* _record_failure, lines 100-101 and 104: the two conditions.
T_RfTest(t) ==
  /\ t_pc[t] = "rf_test"
  /\ IF \/ failure_count >= failure_threshold /\ circuit_state = "CLOSED"
        \/ circuit_state = "HALF_OPEN"
     THEN Goto(t, "rf_open") /\ UNCHANGED t_wake
     ELSE T_AfterRecordFailure(t)
  /\ UNCHANGED << breaker_vars, now, t_attempt, t_reg, t_clock, t_after, rf_calls,
                  success_seen, trial_admits >>

\* _record_failure, lines 102 and 105: the write of OPEN.
T_RfOpen(t) ==
  /\ t_pc[t] = "rf_open"
  /\ circuit_state' = "OPEN"
  /\ trial_admits' = 0
  /\ T_AfterRecordFailure(t)
  /\ UNCHANGED << failure_count, last_failure_time, now, t_attempt, t_reg, t_clock,
                  t_after, rf_calls, success_seen >>

\* _record_success, line 87: the condition.
T_RsTest(t) ==
  /\ t_pc[t] = "rs_test"
  /\ Goto(t, IF circuit_state # "CLOSED" THEN "rs_close" ELSE "rs_count")
  /\ UNCHANGED << breaker_vars, now, t_attempt, t_reg, t_clock, t_after, t_wake,
                  rf_calls, success_seen, trial_admits >>

\* _record_success, line 89.
T_RsClose(t) ==
  /\ t_pc[t] = "rs_close"
  /\ circuit_state' = "CLOSED"
  /\ trial_admits' = 0
  /\ Goto(t, "rs_count")
  /\ UNCHANGED << failure_count, last_failure_time, now, t_attempt, t_reg, t_clock,
                  t_after, t_wake, rf_calls, success_seen >>

\* _record_success, line 90.
T_RsCount(t) ==
  /\ t_pc[t] = "rs_count"
  /\ failure_count' = 0
  /\ Goto(t, "rs_time")
  /\ UNCHANGED << circuit_state, last_failure_time, now, t_attempt, t_reg, t_clock,
                  t_after, t_wake, rf_calls, success_seen, trial_admits >>

\* _record_success, line 91, and the return of the response, line 134.
T_RsTime(t) ==
  /\ t_pc[t] = "rs_time"
  /\ last_failure_time' = None
  /\ Goto(t, "idle")
  /\ UNCHANGED << circuit_state, failure_count, now, t_attempt, t_reg, t_clock,
                  t_after, t_wake, rf_calls, success_seen, trial_admits >>

\* time.sleep(delay) returns and the loop takes its next pass.
T_Wake(t) ==
  /\ t_pc[t] = "sleep"
  /\ now >= t_wake[t]
  /\ Goto(t, "attempt")
  /\ t_attempt' = [t_attempt EXCEPT ![t] = t_attempt[t] + 1]
  /\ UNCHANGED << breaker_vars, now, t_reg, t_clock, t_after, t_wake, rf_calls,
                  success_seen, trial_admits >>

\* The clock of the threads' run.
T_Tick ==
  /\ now < ThreadMaxTime
  /\ now' = now + 1
  /\ UNCHANGED << breaker_vars, thread_vars >>

T_CheckAny == \E t \in Threads : T_Check(t)
T_CheckTruthyAny == \E t \in Threads : T_CheckTruthy(t)
T_CheckClockAny == \E t \in Threads : T_CheckClock(t)
T_CheckElapsedAny == \E t \in Threads : T_CheckElapsed(t)
T_SetHalfOpenAny == \E t \in Threads : T_SetHalfOpen(t)
T_AttemptAny == \E t \in Threads, o \in Outcomes : T_Attempt(t, o)
T_RfReadAny == \E t \in Threads : T_RfRead(t)
T_RfWriteAny == \E t \in Threads : T_RfWrite(t)
T_RfClockAny == \E t \in Threads : T_RfClock(t)
T_RfTimeAny == \E t \in Threads : T_RfTime(t)
T_RfTestAny == \E t \in Threads : T_RfTest(t)
T_RfOpenAny == \E t \in Threads : T_RfOpen(t)
T_RsTestAny == \E t \in Threads : T_RsTest(t)
T_RsCloseAny == \E t \in Threads : T_RsClose(t)
T_RsCountAny == \E t \in Threads : T_RsCount(t)
T_RsTimeAny == \E t \in Threads : T_RsTime(t)
T_WakeAny == \E t \in Threads : T_Wake(t)

\* PaymentClient.__init__, lines 15-31, with the config file present; no
\* thread has called charge() yet.
InitThreads ==
  /\ config_loaded = TRUE
  /\ max_retries \in 1..ThreadMaxAttempts
  /\ failure_threshold \in 1..ThreadMaxThreshold
  /\ recovery_timeout_ms = 1
  /\ circuit_state = "CLOSED"
  /\ failure_count = 0
  /\ last_failure_time = None
  /\ now = 1
  /\ pc = "idle"
  /\ attempt = 0
  /\ result = "none"
  /\ outcomes = << >>
  /\ failures_recorded = 0
  /\ sleeps = 0
  /\ consec = 0
  /\ trip_time = None
  /\ admitted_in = "CLOSED"
  /\ cancelled = FALSE
  /\ HandlerConstructed(1, 1)
  /\ ThreadsIdle
  /\ RetryConfigLoaded

NextThreads ==
  /\ \/ T_CheckAny
     \/ T_CheckTruthyAny
     \/ T_CheckClockAny
     \/ T_CheckElapsedAny
     \/ T_SetHalfOpenAny
     \/ T_AttemptAny
     \/ T_RfReadAny
     \/ T_RfWriteAny
     \/ T_RfClockAny
     \/ T_RfTimeAny
     \/ T_RfTestAny
     \/ T_RfOpenAny
     \/ T_RsTestAny
     \/ T_RsCloseAny
     \/ T_RsCountAny
     \/ T_RsTimeAny
     \/ T_WakeAny
     \/ T_Tick
  /\ UNCHANGED << seq_vars, handler_vars, retry_vars >>

SpecThreads == InitThreads /\ [][NextThreads]_vars

\* The types of the threads' variables.
ThreadTypeOK ==
  /\ t_pc \in [Threads -> ThreadPcs]
  /\ t_attempt \in [Threads -> 0..ThreadMaxAttempts]
  /\ t_reg \in [Threads -> 0..ThreadMaxFailures]
  /\ t_clock \in [Threads -> 0..ThreadMaxTime]
  /\ t_after \in [Threads -> { "finish", "retry" }]
  /\ failure_count \in 0..ThreadMaxFailures
  /\ trial_admits \in 0..MaxTrialAdmits
  /\ rf_calls \in 0..ThreadMaxFailures
  /\ circuit_state \in States


\* C14: while the breaker is HALF_OPEN and its trial call is unresolved, no
\* second caller is admitted: in every interleaving of the threads, at most
\* one call has been let through since circuit_state last became HALF_OPEN.
C14_OneTrialWhileHalfOpen ==
  circuit_state = "HALF_OPEN" => trial_admits <= 1

\* No thread is between the first and the last statement of _record_failure.
NoRecordFailureRunning == \A t \in Threads : ~InRecordFailure(t)

\* C15: the breaker operations are atomic with respect to each other: once
\* N concurrent _record_failure calls have returned and no _record_success
\* call was made, failure_count is N, and the breaker has left CLOSED if N reached
\* failure_threshold.
C15_NoLostUpdate ==
  (~success_seen /\ NoRecordFailureRunning) =>
     /\ failure_count = rf_calls
     /\ rf_calls >= failure_threshold => circuit_state # "CLOSED"


\* The handler's breaker is closed: the open flag is down and failure_count is
\* below the threshold.  With the flag down and failure_count at the threshold
\* or above, the breaker is in its trial phase: _is_circuit_open lowered the
\* flag after circuit_breaker_reset_time (line 203) and the next failure raises
\* it again.
HandlerClosed ==
  ~circuit_open /\ handler_failure_count < circuit_breaker_threshold

\* C21 (as stated): the status of a health report is "healthy" exactly when
\* the handler's breaker is closed, and "degraded" when it is open or in its
\* trial phase.
C21_HealthyIffClosed ==
  last_op = "health" =>
     /\ health_report.status \in { "healthy", "degraded" }
     /\ health_report.status = "healthy" <=> HandlerClosed


(***************************************************************************)
(* _calculate_retry_delay on its own, as src/validate_fixes.py calls it    *)
(* (lines 90-91): a constructed client, any attempt number, any draw of    *)
(* the random source.                                                      *)
(***************************************************************************)

\* __init__, lines 33-42: the configuration file could not be read.  The
\* branch sets neither circuit_breaker_config nor last_failure_time.
FallbackConstructed ==
  /\ config_loaded = FALSE
  /\ timeout_ms = FallbackTimeoutMs
  /\ max_retries = FallbackMaxRetries
  /\ base_retry_delay_ms = FallbackRetryDelayMs
  /\ backoff_multiplier = FallbackBackoffMultiplier
  /\ jitter_ms = FallbackJitterMs
  /\ failure_threshold = None
  /\ recovery_timeout_ms = None
  /\ failure_count = 0
  /\ circuit_state = "CLOSED"
  /\ last_failure_time = None

\* __init__, lines 15-31, with retry settings within the bounds.
LoadedConstructed ==
  /\ config_loaded = TRUE
  /\ timeout_ms = TimeoutMs
  /\ max_retries = MaxAttempts
  /\ base_retry_delay_ms \in 1..MaxRetryDelay
  /\ backoff_multiplier \in 1..MaxMultiplier
  /\ jitter_ms \in 0..MaxJitter
  /\ failure_threshold = 1
  /\ recovery_timeout_ms = 1
  /\ failure_count = 0
  /\ circuit_state = "CLOSED"
  /\ last_failure_time = None

\* No charge() was called on the client.
ClientIdle ==
  /\ now = 1
  /\ pc = "idle"
  /\ attempt = 0
  /\ result = "none"
  /\ outcomes = << >>
  /\ failures_recorded = 0
  /\ sleeps = 0
  /\ consec = 0
  /\ trip_time = None
  /\ admitted_in = "CLOSED"
  /\ cancelled = FALSE

InitDelay ==
  /\ LoadedConstructed \/ FallbackConstructed
  /\ ClientIdle
  /\ delay_last = NoDelayCall
  /\ delay_prev = NoDelayCall
  /\ HandlerConstructed(1, 1)
  /\ ThreadsIdle

\* One call of _calculate_retry_delay(a) in which random.uniform yields j.
CalculateRetryDelayCall(a, j) ==
  /\ delay_prev' = delay_last
  /\ delay_last' = [attempt |-> a, jitter |-> j, delay |-> CalculateRetryDelay(a, j)]
  /\ UNCHANGED << timeout_ms, base_retry_delay_ms, backoff_multiplier, jitter_ms >>

NextDelay ==
  /\ \E a \in 0..MaxAttempts, j \in JitterDraws(jitter_ms) : CalculateRetryDelayCall(a, j)
  /\ UNCHANGED << client_vars, now, handler_vars, thread_vars >>

SpecDelay == InitDelay /\ [][NextDelay]_vars

\* The last two calls were for an attempt number and for the next one.
ConsecutiveDelays ==
  /\ delay_prev # NoDelayCall
  /\ delay_last.attempt = delay_prev.attempt + 1

\* C22: a delay is never negative, and the delay for attempt a + 1 is at least
\* backoff_multiplier times the delay for attempt a less the largest jitter,
\* whatever the two jitter draws were.
C22_BackoffNetOfJitter ==
  /\ delay_last # NoDelayCall => delay_last.delay >= 0
  /\ ConsecutiveDelays =>
       delay_last.delay >= backoff_multiplier * (delay_prev.delay - jitter_ms)

\* The first delay took the largest jitter and the next one took none.
C22_Witness ==
  /\ ConsecutiveDelays
  /\ jitter_ms > 0
  /\ delay_prev.jitter = jitter_ms
  /\ delay_last.jitter = 0
  /\ delay_prev.attempt > 0

\* C23: with the values of lines 38-40 (2 s, 2.0, 500 ms) the delay for
\* attempt a + 1 is greater than the delay for attempt a, whatever the two
\* jitter draws were.
C23_FallbackDelayIncreases ==
  (~config_loaded /\ ConsecutiveDelays) => delay_last.delay > delay_prev.delay

\* The check of validate_fixes.py, lines 90-93, with the draws least in its
\* favour: attempt 0 with 500 ms of jitter, then attempt 1 with none.
C23_Witness ==
  /\ ~config_loaded
  /\ delay_prev = [attempt |-> 0, jitter |-> FallbackJitterMs,
                   delay |-> FallbackRetryDelayMs + FallbackJitterMs]
  /\ delay_last = [attempt |-> 1, jitter |-> 0,
                   delay |-> FallbackRetryDelayMs * FallbackBackoffMultiplier]


(***************************************************************************)
(* The client whose configuration file could not be read: __init__ took    *)
(* its except branch.  _record_failure reads the clock at line 98, before  *)
(* line 100 raises.  Time passes in the sleeps of 2 s and more, up to      *)
(* FallbackMaxTime, and between the steps in ticks of 1 ms while the clock *)
(* is below MaxTime.                                                       *)
(***************************************************************************)

InitFallback ==
  /\ FallbackConstructed
  /\ ClientIdle
  /\ delay_last = NoDelayCall
  /\ delay_prev = NoDelayCall
  /\ HandlerConstructed(1, 1)
  /\ ThreadsIdle

NextFallback ==
  \/ Charge /\ cancelled' = FALSE /\ UNCHANGED << handler_vars, thread_vars, retry_vars >>
  \/ AttemptAny /\ UNCHANGED << cancelled, handler_vars, thread_vars, retry_vars >>
  \/ SleepAny /\ UNCHANGED << cancelled, handler_vars, thread_vars, retry_vars >>
  \/ Tick /\ UNCHANGED << cancelled, handler_vars, thread_vars, retry_vars >>

SpecFallback == InitFallback /\ [][NextFallback]_vars

\* The defaults the specification documents for missing or invalid
\* configuration values, in milliseconds.
DocumentedDefaults ==
  [timeout_ms |-> 30000, max_retries |-> 3, base_retry_delay_ms |-> 1000,
   backoff_multiplier |-> 2, jitter_ms |-> 0, failure_threshold |-> 5,
   recovery_timeout_ms |-> 60000]

\* The settings the client was constructed with.
ClientSettings ==
  [timeout_ms |-> timeout_ms, max_retries |-> max_retries,
   base_retry_delay_ms |-> base_retry_delay_ms,
   backoff_multiplier |-> backoff_multiplier, jitter_ms |-> jitter_ms,
   failure_threshold |-> failure_threshold,
   recovery_timeout_ms |-> recovery_timeout_ms]

\* C24 (as stated): a client constructed without a readable configuration has
\* the documented defaults, and before its first call its breaker is CLOSED
\* with a failure counter of 0.
C24_FallbackDefaults ==
  ~config_loaded =>
     /\ ClientSettings = DocumentedDefaults
     /\ (pc = "idle" /\ result = "none") =>
          (circuit_state = "CLOSED" /\ failure_count = 0)


\* process_payment finds the breaker open in this step and ends as FAILED
\* without reaching _execute_payment.
RejectedPaymentStep == last_op' = "rejected" /\ now' = now

\* C25 (as stated): a payment rejected because the handler's breaker is open
\* starts no payment and leaves failure_count and last_failure_time as they
\* were.
C25_RejectedPaymentChangesNothing ==
  [][ RejectedPaymentStep =>
        /\ in_flight' = in_flight
        /\ handler_failure_count' = handler_failure_count
        /\ handler_last_failure_time' = handler_last_failure_time ]_vars


(***************************************************************************)
(* The handler whose breaker has just opened, with callers that keep       *)
(* submitting payments and a remote that completes every payment it gets.  *)
(* The handler's code compares failure_count with 0 and with the threshold *)
(* only, and reads the clock only in  time.time() - last_failure_time, so  *)
(* counts from MaxFailures on are kept as one value, and once the clock    *)
(* has reached MaxTime the passing of time moves last_failure_time back    *)
(* instead of moving `now` on.                                             *)
(***************************************************************************)

\* The attributes h with failure_count kept within MaxFailures.
CapCount(h) ==
  [h EXCEPT !.failure_count = IF @ > MaxFailures THEN MaxFailures ELSE @]

\* A call of process_payment, lines 94-105 and, for an open breaker, 142-156.
SubmitPayment ==
  /\ in_flight < MaxInFlight
  /\ IF HandlerIsCircuitOpenRet(HandlerBreaker, now)
     THEN /\ SetHandler(CapCount(HandlerRecordFailure(
                          HandlerIsCircuitOpenPost(HandlerBreaker, now), now)))
          /\ last_op' = "rejected"
          /\ in_flight' = in_flight
     ELSE /\ SetHandler(HandlerIsCircuitOpenPost(HandlerBreaker, now))
          /\ last_op' = "admitted"
          /\ in_flight' = in_flight + 1
  /\ UNCHANGED << circuit_breaker_threshold, circuit_breaker_reset_time,
                  health_report, now >>

\* The remote completes a payment: process_payment, lines 110-122.
CompletePayment == ProcessPaymentEnd("completed") /\ now' = now

\* Time passes.
TimePasses ==
  /\ IF now < MaxTime
     THEN now' = now + 1 /\ handler_last_failure_time' = handler_last_failure_time
     ELSE /\ now' = now
          /\ handler_last_failure_time' =
               IF handler_last_failure_time > 0
               THEN handler_last_failure_time - 1 ELSE 0
  /\ UNCHANGED << circuit_breaker_threshold, circuit_breaker_reset_time,
                  circuit_open, handler_failure_count, in_flight, last_op,
                  health_report >>

\* The handler right after the failure that opened its breaker: as many
\* payments as the threshold have failed at clock 1.
InitHandlerTripped ==
  /\ LoadedConstructed
  /\ base_retry_delay_ms = RetryDelayMs
  /\ backoff_multiplier = BackoffMultiplier
  /\ jitter_ms = JitterMs
  /\ ClientIdle
  /\ delay_last = NoDelayCall
  /\ delay_prev = NoDelayCall
  /\ ThreadsIdle
  /\ circuit_breaker_threshold \in 1..MaxThreshold
  /\ circuit_breaker_reset_time \in 1..MaxRecovery
  /\ circuit_open = TRUE
  /\ handler_failure_count = circuit_breaker_threshold
  /\ handler_last_failure_time = 1
  /\ in_flight = 0
  /\ last_op = "timeout"
  /\ health_report = NoReport

NextHandlerLive ==
  /\ \/ SubmitPayment
     \/ CompletePayment
     \/ TimePasses
  /\ UNCHANGED << client_vars, thread_vars, retry_vars >>

\* Callers keep submitting, payments in flight end, and time passes.
SpecHandlerLive ==
  /\ InitHandlerTripped
  /\ [][NextHandlerLive]_vars
  /\ WF_vars(SubmitPayment /\ UNCHANGED << client_vars, thread_vars, retry_vars >>)
  /\ WF_vars(CompletePayment /\ UNCHANGED << client_vars, thread_vars, retry_vars >>)
  /\ WF_vars(TimePasses /\ UNCHANGED << client_vars, thread_vars, retry_vars >>)

\* C26 (as stated): at whatever rate payments are submitted, an open breaker
\* of the handler is closed again later, by a payment that was admitted and
\* completed.
C26_OpenBreakerCloses == circuit_open ~> HandlerClosed

\* The state InitHandlerTripped starts from, in a run of the handler from its
\* construction.
HandlerJustTripped ==
  /\ circuit_open
  /\ handler_failure_count = circuit_breaker_threshold
  /\ handler_last_failure_time = now
  /\ in_flight = 0
  /\ last_op = "timeout"


\* C27 (as stated): with several threads on one client, whenever
\* circuit_state is OPEN, last_failure_time is set, so that a permission check
\* after the recovery timeout can move the breaker to HALF_OPEN.
C27_OpenHasFailureTime ==
  circuit_state = "OPEN" => last_failure_time # None


\* C28 (as stated): a _record_failure that finds the breaker OPEN leaves the
\* time the recovery window is measured from, last_failure_time, as it was.
C28_FailureWhileOpenKeepsWindow ==
  [][ (FailureStep /\ circuit_state = "OPEN") =>
        last_failure_time' = last_failure_time ]_vars


\* The call in progress, or the call that ended last, is a HALF_OPEN trial:
\* its permission check found the breaker OPEN and let it through.
TrialCall == admitted_in = "OPEN" /\ result # "circuit_open"

\* C29 (as stated): when the charge admitted as the HALF_OPEN trial has ended,
\* whatever its attempts' outcomes were, the breaker is CLOSED or OPEN.
C29_TrialResolves ==
  (pc = "done" /\ TrialCall) => circuit_state \in { "CLOSED", "OPEN" }


\* The call was let through by its permission check.
AdmittedCall == pc # "idle" /\ result # "circuit_open"

\* The attempts and sleeps of an admitted call so far: one sleep between two
\* attempts, none after the last, at most max_retries attempts, and at least
\* one when the call has ended.
AttemptsAndSleeps ==
  AdmittedCall =>
     /\ Len(outcomes) <= max_retries
     /\ pc = "attempt" => (sleeps = Len(outcomes) /\ Len(outcomes) < max_retries)
     /\ pc = "sleep" => (sleeps = Len(outcomes) - 1 /\ Len(outcomes) < max_retries)
     /\ pc = "done" => (sleeps = Len(outcomes) - 1 /\ Len(outcomes) >= 1)

\* time.sleep returns in this step and the next attempt is due.
SleepStep == pc = "sleep" /\ pc' = "attempt"

\* C30: an admitted charge makes at least 1 and at most max_retries attempts,
\* sleeps once between two attempts, for the delay computed from the 0-based
\* index of the attempt that failed, and does not sleep after its last one.
C30_AttemptsAndSleeps ==
  [][ /\ AttemptsAndSleeps'
      /\ SleepStep =>
           \E j \in JitterDraws(jitter_ms) :
              now' = now + CalculateRetryDelay(Len(outcomes) - 1, j) ]_vars

\* A call that used all of its three attempts and slept twice.
C30_Witness ==
  /\ pc = "done"
  /\ max_retries = 3
  /\ Len(outcomes) = 3
  /\ sleeps = 2
  /\ result # "circuit_open"


\* C31 (as stated): a finished charge all of whose attempts ended in a
\* connection error made max_retries attempts, recorded max_retries failures,
\* slept between the attempts and returned a failure result.
C31_AllConnectionErrorsReturnFailure ==
  (/\ pc = "done"
   /\ outcomes # << >>
   /\ \A i \in 1..Len(outcomes) : outcomes[i] = "connection_error")
  => (/\ Len(outcomes) = max_retries
      /\ failures_recorded = max_retries
      /\ sleeps = max_retries - 1
      /\ result \in Returned)


\* A thread between the first and the last statement of _record_success.
InRecordSuccess(t) == t_pc[t] \in { "rs_test", "rs_close", "rs_count", "rs_time" }

\* No thread is in the middle of _record_success or _record_failure: every
\* breaker update that was started has run to its end.
NoBreakerUpdateRunning ==
  \A t \in Threads : ~InRecordFailure(t) /\ ~InRecordSuccess(t)

\* The relation between the breaker's three fields: a CLOSED breaker counts
\* fewer failures than failure_threshold, and failure_count is 0 exactly when
\* no failure time is kept.
BreakerFieldsConsistent ==
  /\ circuit_state = "CLOSED" => failure_count < failure_threshold
  /\ failure_count = 0 <=> last_failure_time = None

\* C32 (as stated): in sequential and in concurrent use, whenever no breaker
\* update is half-way, a CLOSED breaker has failure_count < failure_threshold
\* and failure_count is 0 exactly when last_failure_time is None.
C32_BreakerFieldsConsistent ==
  NoBreakerUpdateRunning => BreakerFieldsConsistent


\* C33 (as stated): on the client that fell back to its defaults, a charge
\* whose attempts failed recorded one failure for each of them and ended with
\* an ordinary result, not with the internal fault AttributeError.
C33_FallbackChargeEndsOrdinarily ==
  (/\ ~config_loaded
   /\ pc = "done"
   /\ outcomes # << >>
   /\ \A i \in 1..Len(outcomes) : outcomes[i] \in FailureOutcomes)
  => (/\ result # "raise_AttributeError"
      /\ failures_recorded = Len(outcomes))


(***************************************************************************)
(* The two breakers side by side: a PaymentClient that makes one attempt   *)
(* per call and a PaymentHandler, constructed with the same failure        *)
(* threshold and the same recovery time, read the same clock, get every    *)
(* call at the same clock value, one call at a time, and the remote ends   *)
(* the call of both in the same way.  What is not a result and not a       *)
(* timeout, a 429 and a status 200 whose body does not parse among them,   *)
(* is a failed call for the handler.  The cancellation of the handler's    *)
(* task has no counterpart in the client and is not among the outcomes.    *)
(***************************************************************************)

\* What the remote can do with a call that both objects may have passed on.
PairOutcomes == Outcomes

\* The remote's outcome o as _execute_payment under asyncio.wait_for shows it
\* to process_payment: a result, asyncio.TimeoutError, or another exception.
HandlerOutcomeOf(o) ==
  IF o = "200" THEN "completed"
  ELSE IF o = "timeout" THEN "timeout"
  ELSE "failed"

InitPair ==
  /\ config_loaded = TRUE
  /\ max_retries = 1
  /\ failure_threshold \in 1..MaxThreshold
  /\ recovery_timeout_ms \in 1..MaxRecovery
  /\ circuit_state = "CLOSED"
  /\ failure_count = 0
  /\ last_failure_time = None
  /\ now = 1
  /\ ClientIdle
  /\ HandlerConstructed(failure_threshold, recovery_timeout_ms)
  /\ ThreadsIdle
  /\ RetryConfigLoaded

\* charge() and process_payment() are called at the same clock value: both
\* permission checks run (lines 49 of the client, 101 of the handler).
PairCall ==
  /\ pc \in { "idle", "done" }
  /\ in_flight = 0
  /\ Charge
  /\ ProcessPaymentBegin
  /\ cancelled' = FALSE
  /\ UNCHANGED << thread_vars, retry_vars >>

\* The remote ends the call as o, for each of the two objects that passed
\* the call on.
PairOutcome(o) ==
  /\ pc = "attempt" \/ in_flight > 0
  /\ IF pc = "attempt"
     THEN Attempt(o)
     ELSE UNCHANGED << config_vars, circuit_state, failure_count,
                       last_failure_time, now, pc, attempt, result, outcomes,
                       failures_recorded, sleeps, consec, trip_time, admitted_in >>
  /\ IF in_flight > 0
     THEN ProcessPaymentEnd(HandlerOutcomeOf(o))
     ELSE UNCHANGED handler_vars
  /\ UNCHANGED << cancelled, thread_vars, retry_vars >>

PairOutcomeAny == \E o \in PairOutcomes : PairOutcome(o)

NextPair ==
  \/ PairCall
  \/ PairOutcomeAny
  \/ Tick /\ UNCHANGED << cancelled, handler_vars, thread_vars, retry_vars >>

SpecPair == InitPair /\ [][NextPair]_vars

\* C34 (as stated): the two breakers, set up alike and driven by the same
\* calls, outcomes and clock values, take the same decision on every call:
\* the handler has a payment in progress exactly when the client has an
\* attempt in progress, and the last call was rejected by both or by neither.
C34_SameCallsAdmitted ==
  /\ pc = "attempt" <=> in_flight > 0
  /\ (pc = "done" /\ result = "circuit_open") <=> last_op = "rejected"

====
